---- MODULE Spec2Model ----
(***************************************************************************)
(* Particle swarm optimizer of src/src/pso.py (class PSO, class Particle)  *)
(* and its entry point src/main_module.py, as a state machine.             *)
(*                                                                         *)
(* Real numbers (positions, velocities, coefficients) are exact rationals  *)
(* <<numerator, denominator>> in lowest terms with a positive denominator. *)
(* Costs are floats: the cost function's results (a few sample numbers    *)
(* and nan) and inf, compared the way Python compares floats.              *)
(***************************************************************************)
EXTENDS Integers, Sequences, FiniteSets, TLC

\* ------------------------------------------------------------------ bounds
MaxParticles == 3
MaxIter == 2
MaxNumVar == 1
\* a run evaluates at most MaxWork coordinates: cost function calls x dimensions
MaxWork == 6

\* ------------------------------------------------------- exact arithmetic
Abs(x) == IF x < 0 THEN -x ELSE x

RECURSIVE GCD(_, _)
GCD(a, b) == IF b = 0 THEN a ELSE GCD(b, a % b)

Rat(n, d) ==
    LET s == IF d < 0 THEN -1 ELSE 1
        g == GCD(Abs(n), Abs(d))
    IN  <<(s * n) \div g, (s * d) \div g>>

Int2Rat(n) == <<n, 1>>
RAdd(p, q) == Rat(p[1] * q[2] + q[1] * p[2], p[2] * q[2])
RSub(p, q) == Rat(p[1] * q[2] - q[1] * p[2], p[2] * q[2])
RMul(p, q) == Rat(p[1] * q[1], p[2] * q[2])
RDiv(p, q) == Rat(p[1] * q[2], p[2] * q[1])

\* numpy's elementwise operations on arrays of equal length
VAdd(a, b) == [d \in 1..Len(a) |-> RAdd(a[d], b[d])]
VSub(a, b) == [d \in 1..Len(a) |-> RSub(a[d], b[d])]
VMul(a, b) == [d \in 1..Len(a) |-> RMul(a[d], b[d])]
VScale(c, a) == [d \in 1..Len(a) |-> RMul(c, a[d])]
zeros(n) == [d \in 1..n |-> Int2Rat(0)]

\* ------------------------------------------------------------ float costs
\* the numbers the cost function returns in this model
CostSamples == {0, 1}
\* math.inf: above every number
inf == (CHOOSE m \in CostSamples : \A c \in CostSamples : c <= m) + 1
\* float nan, a value apart from every number and from inf
nan == inf + 1
\* Python's a < b on floats: false whenever an operand is nan
FloatLess(a, b) == a # nan /\ b # nan /\ a < b

\* what the cost function may return for a position
CostValues == CostSamples \cup {nan}

\* the samples drawn from the random source, all in [0, 1)
RandomSamples == {Int2Rat(0), Rat(1, 2)}
RandomVectors(n) == [1..n -> RandomSamples]

\* Python's None, a value no array of rationals equals
None == << <<0, 0>> >>

\* ---------------------------------------------------------- configuration
\* the constructor's defaults, coefficients as rationals
DefaultCoefficients ==
    [wi |-> Rat(9, 10), wf |-> Rat(4, 10),
     cpi |-> Rat(25, 10), cpf |-> Rat(5, 10),
     csi |-> Rat(5, 10), csf |-> Rat(25, 10)]

\* (var_min, var_max): the default domain, and an empty one
DomainConfigs == {<<-10, 10>>, <<10, 10>>}

\* how optimize is called: without the argument, with None, with a window
WindowArgs == {"missing", "None", "window"}

VARIABLES
    num_var, num_particles, iter_max, var_min, var_max, coef,
    my_window, stopped,
    pc, outcome, returned,
    particle_array, global_best_cost, global_best_position,
    iteration, i, w, cp, cs,
    cost_calls, reports, init_result

config == <<num_var, num_particles, iter_max, var_min, var_max, coef, my_window>>
locals == <<iteration, i, w, cp, cs>>
vars == <<config, stopped, pc, outcome, returned, particle_array,
          global_best_cost, global_best_position, locals,
          cost_calls, reports, init_result>>

\* Particle.__init__
Particle ==
    [position |-> <<>>, best_position |-> <<>>, velocity |-> <<>>,
     cost |-> -1, best_cost |-> -1]

\* the coordinates a run with this configuration evaluates: one cost function
\* call per particle at initialization and in every iteration
Work(particles, iterations, dims) ==
    particles * (iterations + 1) * (IF dims > 1 THEN dims ELSE 1)

\* PSO.__init__: every argument is stored as given
Init ==
    /\ num_var \in -1..MaxNumVar
    /\ num_particles \in 0..MaxParticles
    /\ iter_max \in 0..MaxIter
    /\ Work(num_particles, iter_max, num_var) <= MaxWork
    /\ \E dom \in DomainConfigs : var_min = dom[1] /\ var_max = dom[2]
    /\ coef = DefaultCoefficients
    /\ my_window \in WindowArgs
    /\ stopped = FALSE
    /\ global_best_cost = inf
    /\ global_best_position = None
    /\ pc = "constructed"
    /\ outcome = "none"
    /\ returned = None
    /\ particle_array = <<>>
    /\ iteration = 0
    /\ i = 0
    /\ w = Int2Rat(0)
    /\ cp = Int2Rat(0)
    /\ cs = Int2Rat(0)
    /\ cost_calls = 0
    /\ reports = <<>>
    /\ init_result = [particle_array |-> <<>>, global_best_cost |-> inf,
                      global_best_position |-> None]

\* PSO.linrate
linrate(x_max, x_min, iter) ==
    RAdd(x_min,
         RMul(RDiv(RSub(x_max, x_min), Int2Rat(iter_max - 0)),
              Int2Rat(iter_max - iter)))

\* an exception leaves optimize
Raise(exc) ==
    /\ pc' = "done"
    /\ outcome' = exc

\* p.optimize(...): the call, and the allocation of the swarm
OptimizeCall ==
    /\ pc = "constructed"
    /\ IF my_window = "missing"
       THEN /\ Raise("TypeError")
            /\ UNCHANGED particle_array
       ELSE /\ pc' = "init"
            /\ particle_array' = [k \in 1..num_particles |-> Particle]
            /\ UNCHANGED outcome
    /\ UNCHANGED <<config, stopped, returned, global_best_cost,
                   global_best_position, locals, cost_calls, reports, init_result>>

\* np.random.uniform(low, high, n): low + (high - low) * sample, per component
uniform(low, high, r) ==
    [d \in 1..Len(r) |->
        RAdd(Int2Rat(low), RMul(Int2Rat(high - low), r[d]))]

\* lines 102-106: the particle as initialized from a sampled position and its cost
InitializedParticle(pos, c) ==
    [position |-> pos, velocity |-> zeros(num_var), cost |-> c,
     best_position |-> pos, best_cost |-> c]

\* lines 110, 152: the test guarding the update of the global best
ImprovesGlobalBest(p) == FloatLess(p.best_cost, global_best_cost)

\* lines 107-112: global_best_position after particle p is initialized. Line 107
\* assigns it before the test, and line 112 assigns the same value again.
InitGlobalBestPosition(p) == p.best_position

\* mutant of InitGlobalBestCost: the cost is assigned before the test, as line
\* 107 does with the position
InitGlobalBestCostUnconditional(p) == p.best_cost

\* lines 110-111
InitGlobalBestCost(p) ==
    IF ImprovesGlobalBest(p) THEN p.best_cost ELSE global_best_cost

\* lines 100-112: one pass of the initialization loop
InitParticle ==
    /\ pc = "init"
    /\ i < num_particles
    /\ IF num_var < 0
       THEN \* np.random.uniform refuses a negative size
            /\ Raise("ValueError")
            /\ UNCHANGED <<particle_array, global_best_cost, global_best_position,
                           i, cost_calls>>
       ELSE \E r \in RandomVectors(num_var), c \in CostValues :
              LET p == InitializedParticle(uniform(var_min, var_max, r), c) IN
              /\ particle_array' = [particle_array EXCEPT ![i + 1] = p]
              /\ global_best_position' = InitGlobalBestPosition(p)
              /\ global_best_cost' = InitGlobalBestCost(p)
              /\ cost_calls' = cost_calls + 1
              /\ i' = i + 1
              /\ UNCHANGED <<pc, outcome>>
    /\ UNCHANGED <<config, stopped, returned, iteration, w, cp, cs,
                   reports, init_result>>

\* line 116, first entry: the initialization loop is exhausted
EnterMainLoop ==
    /\ pc = "init"
    /\ i >= num_particles
    /\ pc' = "loop"
    /\ iteration' = 0
    /\ init_result' = [particle_array |-> particle_array,
                       global_best_cost |-> global_best_cost,
                       global_best_position |-> global_best_position]
    /\ UNCHANGED <<config, stopped, outcome, returned, particle_array,
                   global_best_cost, global_best_position, i, w, cp, cs,
                   cost_calls, reports>>

\* the value optimize hands back: a bare return, or falling off the end
ReturnValue == None

\* line 116: range(iter_max) is exhausted and optimize falls off its end
Complete ==
    /\ pc = "loop"
    /\ iteration >= iter_max
    /\ pc' = "done"
    /\ outcome' = "Completed"
    /\ returned' = ReturnValue
    /\ UNCHANGED <<config, stopped, particle_array, global_best_cost,
                   global_best_position, locals, cost_calls, reports, init_result>>

\* line 118 with my_window = None: None has no attribute stopped
NoWindow ==
    /\ pc = "loop"
    /\ iteration < iter_max
    /\ my_window = "None"
    /\ Raise("AttributeError")
    /\ UNCHANGED <<config, stopped, returned, particle_array, global_best_cost,
                   global_best_position, locals, cost_calls, reports, init_result>>

\* mutant of CancelReturn: the iteration's report is emitted before returning
CancelReturnAfterReport ==
    /\ returned' = ReturnValue
    /\ reports' = Append(reports, [iteration |-> iteration + 1,
                                   cost |-> global_best_cost,
                                   position |-> global_best_position])
    /\ UNCHANGED <<particle_array, global_best_cost, global_best_position,
                   locals, cost_calls>>

\* line 119: what the return on cancellation leaves behind
CancelReturn ==
    /\ returned' = ReturnValue
    /\ UNCHANGED <<particle_array, global_best_cost, global_best_position,
                   locals, cost_calls, reports>>

\* lines 118-119: cancellation is seen at the top of an iteration
Cancel ==
    /\ pc = "loop"
    /\ iteration < iter_max
    /\ my_window = "window"
    /\ stopped
    /\ pc' = "done"
    /\ outcome' = "Cancelled"
    /\ CancelReturn
    /\ UNCHANGED <<config, stopped, init_result>>

\* lines 118-126: not cancelled, the iteration's coefficients are computed
BeginIteration ==
    /\ pc = "loop"
    /\ iteration < iter_max
    /\ my_window = "window"
    /\ ~stopped
    /\ w' = linrate(coef.wf, coef.wi, iteration)
    /\ cp' = linrate(coef.cpi, coef.cpf, iteration)
    /\ cs' = linrate(coef.csi, coef.csf, iteration)
    /\ i' = 0
    /\ pc' = "particles"
    /\ UNCHANGED <<config, stopped, outcome, returned, particle_array,
                   global_best_cost, global_best_position, iteration,
                   cost_calls, reports, init_result>>

\* lines 131-137: the velocity of p drawn towards its own best and towards target
VelocityTowards(p, target, r1, r2) ==
    VAdd(VAdd(VScale(w, p.velocity),
              VMul(VScale(cp, r1), VSub(p.best_position, p.position))),
         VMul(VScale(cs, r2), VSub(target, p.position)))

\* the global best position as it stood when the current iteration began
\* (mutant of SocialTarget: a snapshot frozen at the start of the iteration)
IterationStartGlobalBest ==
    IF reports = <<>> THEN init_result.global_best_position
    ELSE reports[Len(reports)].position

\* line 136: the global best a particle is drawn towards
SocialTarget == global_best_position

\* lines 131-137
UpdatedVelocity(p, r1, r2) == VelocityTowards(p, SocialTarget, r1, r2)

\* lines 131-149: the particle after its move, evaluation and personal-best update
UpdatedParticle(p, r1, r2, c) ==
    LET vel == UpdatedVelocity(p, r1, r2)
        pos == VAdd(p.position, vel)
    IN  IF FloatLess(c, p.best_cost)
        THEN [position |-> pos, velocity |-> vel, cost |-> c,
              best_position |-> pos, best_cost |-> c]
        ELSE [position |-> pos, velocity |-> vel, cost |-> c,
              best_position |-> p.best_position, best_cost |-> p.best_cost]

\* lines 145, 152: the global best changes only inside the personal-best branch
GlobalBestUpdated(p, q) ==
    /\ FloatLess(q.cost, p.best_cost)
    /\ ImprovesGlobalBest(q)

\* lines 128-154: one pass of the particle loop
UpdateParticle ==
    /\ pc = "particles"
    /\ i < num_particles
    /\ \E r1 \in RandomVectors(num_var), r2 \in RandomVectors(num_var),
          c \in CostValues :
         LET p == particle_array[i + 1]
             q == UpdatedParticle(p, r1, r2, c)
         IN  /\ particle_array' = [particle_array EXCEPT ![i + 1] = q]
             /\ IF GlobalBestUpdated(p, q)
                THEN /\ global_best_cost' = q.best_cost
                     /\ global_best_position' = q.best_position
                ELSE UNCHANGED <<global_best_cost, global_best_position>>
    /\ cost_calls' = cost_calls + 1
    /\ i' = i + 1
    /\ UNCHANGED <<config, stopped, pc, outcome, returned, iteration, w, cp, cs,
                   reports, init_result>>

\* lines 83-88: what display_info shows
Report ==
    [iteration |-> iteration + 1, cost |-> global_best_cost,
     position |-> global_best_position]

\* lines 156-157 and 78-89: the progress report closing an iteration; line 89
\* lets the window handle its pending events, a stop request among them
display_info ==
    /\ pc = "particles"
    /\ i >= num_particles
    /\ reports' = Append(reports, Report)
    /\ \E click \in BOOLEAN : stopped' = (stopped \/ click)
    /\ iteration' = iteration + 1
    /\ pc' = "loop"
    /\ UNCHANGED <<config, outcome, returned, particle_array,
                   global_best_cost, global_best_position, i, w, cp, cs,
                   cost_calls, init_result>>

\* a stop request before optimize is called: my_window.stopped is already true
RequestStop ==
    /\ my_window = "window"
    /\ pc = "constructed"
    /\ ~stopped
    /\ stopped' = TRUE
    /\ UNCHANGED <<config, pc, outcome, returned, particle_array,
                   global_best_cost, global_best_position, locals,
                   cost_calls, reports, init_result>>

Next ==
    \/ OptimizeCall
    \/ InitParticle
    \/ EnterMainLoop
    \/ Complete
    \/ NoWindow
    \/ Cancel
    \/ BeginIteration
    \/ UpdateParticle
    \/ display_info
    \/ RequestStop

Spec == Init /\ [][Next]_vars

\* ------------------------------------------------------------ properties
Running == pc \in {"init", "loop", "particles"}
\* the configurations section 7 of the specification accepts
ValidConfig ==
    /\ num_particles > 0
    /\ iter_max > 0
    /\ num_var > 0
    /\ var_min < var_max
\* the initialization loop has run to its end
InitComplete ==
    \/ pc \in {"loop", "particles"}
    \/ outcome \in {"Completed", "Cancelled", "AttributeError"}
\* the particles evaluated at least once: indices 1..Evaluated
Evaluated == IF pc = "init" THEN i ELSE IF InitComplete THEN num_particles ELSE 0
Numeric(c) == c \in CostSamples
\* a <= b on floats: false whenever an operand is nan
FloatLessEq(a, b) == a # nan /\ b # nan /\ a <= b

\* C1: when optimize ends Completed or Cancelled, the value it returns is the
\* global_best_position of that moment, and with at least one particle it is
\* not None.
C1_ReturnsGlobalBest ==
    (ValidConfig /\ pc = "done" /\ outcome \in {"Completed", "Cancelled"}) =>
        /\ returned = global_best_position
        /\ (num_particles >= 1 => returned # None)

\* C2: when initialization completes with at least one particle and numeric
\* costs, global_best_position is the initial position of a particle whose
\* best_cost equals global_best_cost, the minimum initial cost.
C2_InitGlobalBestIsArgmin ==
    (ValidConfig /\ pc = "loop" /\ iteration = 0 /\ num_particles >= 1
        /\ \A k \in 1..num_particles : Numeric(particle_array[k].cost)) =>
        /\ \A k \in 1..num_particles :
              global_best_cost <= particle_array[k].best_cost
        /\ \E k \in 1..num_particles :
              /\ particle_array[k].position = global_best_position
              /\ particle_array[k].best_cost = global_best_cost

\* the schedule of section 4.2 of the specification
Schedule(initial, final, t) ==
    RAdd(final,
         RDiv(RMul(RSub(initial, final), Int2Rat(iter_max - t)), Int2Rat(iter_max)))

\* C3: the coefficients an iteration t uses are
\* final + (initial - final) * (iter_max - t) / iter_max for w (wi -> wf),
\* cp (cpi -> cpf) and cs (csi -> csf); at t = 0 they are the initial values.
C3_CoefficientSchedule ==
    (ValidConfig /\ pc = "particles") =>
        /\ w = Schedule(coef.wi, coef.wf, iteration)
        /\ cp = Schedule(coef.cpi, coef.cpf, iteration)
        /\ cs = Schedule(coef.csi, coef.csf, iteration)
        /\ (iteration = 0 => w = coef.wi /\ cp = coef.cpi /\ cs = coef.csi)

\* C4: global_best_cost never increases: in every step its new value is less
\* than or equal to its previous value.
C4_GlobalBestCostNonIncreasing ==
    [][FloatLessEq(global_best_cost', global_best_cost)]_vars

\* C4 witness: the main loop has lowered global_best_cost below its value at
\* the end of initialization, and a particle's current cost lies above it.
C4_Witness ==
    /\ pc = "particles"
    /\ global_best_cost < init_result.global_best_cost
    /\ \E k \in 1..num_particles :
          /\ Numeric(particle_array[k].cost)
          /\ particle_array[k].cost > global_best_cost

\* C5: every particle evaluated at least once has best_cost <= cost and
\* global_best_cost <= best_cost, at every step boundary.
C5_BestCostOrder ==
    ValidConfig => \A k \in 1..Evaluated :
        /\ FloatLessEq(particle_array[k].best_cost, particle_array[k].cost)
        /\ FloatLessEq(global_best_cost, particle_array[k].best_cost)

\* the state the claims of cancellation speak of
RunState == <<particle_array, global_best_cost, global_best_position,
              cost_calls, reports>>

\* C6: a run cancelled at the top of iteration 0 ends with the particles and
\* the global best exactly as initialization left them, with num_particles
\* calls of the cost function and no report; and the step in which
\* cancellation is observed, like every step after it, changes none of that
\* state.
C6_CancelKeepsState ==
    /\ []((outcome = "Cancelled" /\ iteration = 0) =>
            /\ particle_array = init_result.particle_array
            /\ global_best_cost = init_result.global_best_cost
            /\ global_best_position = init_result.global_best_position
            /\ cost_calls = num_particles
            /\ reports = <<>>)
    /\ [][(stopped /\ pc = "loop" /\ iteration < iter_max) \/ outcome = "Cancelled"
            => UNCHANGED RunState]_vars

\* C6 witness: cancelled at the top of iteration 0, with particles initialized
C6_Witness ==
    /\ outcome = "Cancelled"
    /\ iteration = 0
    /\ num_particles >= 2
    /\ num_var >= 1

\* C7: optimize never runs (initialization or main loop) with num_particles,
\* iter_max or num_var not positive, or with var_min >= var_max: the
\* constructor has rejected such a configuration.
C7_ConfigurationRejected ==
    Running => ValidConfig

\* C8: once the cost function has returned nan for a particle, optimize has
\* ended in a failure; it neither goes on nor ends Completed or Cancelled.
C8_NanFails ==
    (ValidConfig /\ \E k \in 1..Len(particle_array) : particle_array[k].cost = nan) =>
        /\ pc = "done"
        /\ outcome \notin {"Completed", "Cancelled"}

\* C9: called without a window, optimize ends only as Completed, after
\* initialization and all iter_max iterations, with no report emitted.
C9_RunsWithoutWindow ==
    (ValidConfig /\ my_window # "window" /\ pc = "done") =>
        /\ outcome = "Completed"
        /\ iteration = iter_max
        /\ cost_calls = num_particles * (iter_max + 1)
        /\ reports = <<>>

\* C10: each iteration checks for cancellation first, then updates every
\* particle once in index order, each update calling the cost function once
\* and reading the global best position as it stands at that moment, then
\* emits the iteration's report once, with the global best as the last update
\* left it; reports carry increasing iteration numbers and none is emitted for
\* an iteration in which cancellation was seen.
C10_IterationOrder ==
    /\ [](InitComplete =>
            /\ Len(reports) = iteration
            /\ \A k \in 1..Len(reports) : reports[k].iteration = k
            /\ cost_calls = num_particles * (iteration + 1)
                              + (IF pc = "particles" THEN i ELSE 0))
    /\ [][(pc = "loop" /\ pc' = "particles") => (~stopped /\ i' = 0)]_vars
    /\ [][(InitComplete /\ cost_calls' # cost_calls) =>
            /\ pc = "particles" /\ i < num_particles /\ i' = i + 1
            /\ cost_calls' = cost_calls + 1
            /\ reports' = reports
            /\ \A k \in 1..num_particles :
                  k # i + 1 => particle_array'[k] = particle_array[k]
            /\ \E r1 \in RandomVectors(num_var), r2 \in RandomVectors(num_var) :
                  particle_array'[i + 1].velocity =
                      VelocityTowards(particle_array[i + 1],
                                      global_best_position, r1, r2)]_vars
    /\ [][reports' # reports =>
            /\ pc = "particles" /\ i = num_particles
            /\ pc' = "loop" /\ iteration' = iteration + 1
            /\ reports' = Append(reports,
                                 [iteration |-> iteration + 1,
                                  cost |-> global_best_cost,
                                  position |-> global_best_position])
            /\ UNCHANGED <<particle_array, global_best_cost,
                           global_best_position, cost_calls>>]_vars

\* C10 witness: in the first iteration the first particle has set a new global
\* best, and the second particle, updated after it, has a velocity that only
\* the new global best explains, not the one the iteration began with.
C10_Witness ==
    /\ pc = "particles"
    /\ reports = <<>>
    /\ i = 2
    /\ particle_array[1].position = global_best_position
    /\ global_best_position # IterationStartGlobalBest
    /\ \A r1 \in RandomVectors(num_var), r2 \in RandomVectors(num_var) :
          particle_array[2].velocity #
              VelocityTowards(init_result.particle_array[2],
                              IterationStartGlobalBest, r1, r2)
====
